---- MODULE Spec2Model ----
(***************************************************************************)
(* Model of src/src/kexlib/gfx/PngImage.cc: the PNG image_type plug-in     *)
(* (detect, load, save) driving libpng.  One call is in progress at a      *)
(* time; pc is the position inside the call.  libpng itself is modelled by *)
(* what its documented entry points do to the values the adapter reads     *)
(* back (header fields, colour type after transformation, unknown-chunk    *)
(* callbacks, longjmp on error).                                           *)
(***************************************************************************)
EXTENDS Integers, Sequences, FiniteSets, TLC

\* ---------------------------------------------------------------- bounds
MaxDim == 2          \* largest width and height of an image
MaxPal == 2          \* largest colour-table size of a paletted PNG
MaxSeed == 1         \* pixel patterns 0..MaxSeed

\* ------------------------------------------------------- libpng constants
PNG_COLOR_MASK_COLOR == 2
PNG_COLOR_MASK_ALPHA == 4
PNG_COLOR_TYPE_GRAY == 0
PNG_COLOR_TYPE_RGB == 2
PNG_COLOR_TYPE_PALETTE == 3
PNG_COLOR_TYPE_GRAY_ALPHA == 4
PNG_COLOR_TYPE_RGB_ALPHA == 6
PNG_INTERLACE_NONE == 0
PNG_INTERLACE_ADAM7 == 1

Min(a, b) == IF a < b THEN a ELSE b

\* ------------------------------------------------------------------ state
VARIABLES
    ptrSize,          \* sizeof(const char *) of the build: 4 or 8
    littleEndian,     \* byte order of the host
    pc,               \* position inside the current call
    op,               \* "none", "detect", "load" or "save"
    stream,           \* the istream's content (bytes for detect, datastream for load)
    fault,            \* where libpng signals an error in this call
    png_ptr,          \* read struct  [acquired, released]
    writep,           \* write struct [acquired, released]
    infop,            \* info struct  [acquired, released]
    offsets,          \* int offsets[2] of load
    hdr,              \* width, height, bitDepth, colorType, interlaceMethod
    transformations,  \* libpng transformations requested on png_ptr
    format,           \* pixel_format chosen by load / colour type chosen by save
    retval,           \* Image retval of load
    image,            \* the Image passed to save
    out,              \* the ostream's content
    outcome           \* how the call ended

build == <<ptrSize, littleEndian>>
handles == <<png_ptr, writep, infop>>
vars == <<ptrSize, littleEndian, pc, op, stream, fault, png_ptr, writep, infop,
          offsets, hdr, transformations, format, retval, image, out, outcome>>

NoHandle == [acquired |-> FALSE, released |-> 0]
Acquire(h) == [h EXCEPT !.acquired = TRUE]
Destroy(h) == [h EXCEPT !.released = @ + 1]

NoImage == [width |-> 0, height |-> 0, format |-> "none", rows |-> <<>>,
            palette |-> [format |-> "none", entries |-> <<>>], offsets |-> <<0, 0>>]
NoStream == [kind |-> "none"]
NoHdr == [width |-> 0, height |-> 0, bitDepth |-> 0, colorType |-> 0, interlaceMethod |-> 0]
NoOutcome == [kind |-> "none"]

\* --------------------------------------------------------------- detect
\* The string literal "\x89PNG\r\n\x1a\n" with its terminating NUL.
PngSignature == <<137, 80, 78, 71, 13, 10, 26, 10>>
magic == PngSignature \o <<0>>

\* sizeof magic: magic is declared `static auto`, so it is a const char *.
SizeofMagic == ptrSize

\* istream::read(buf, n) into a zero-initialised buffer of n + 1 chars.
ReadIntoBuf(s, n) ==
    [i \in 1..(n + 1) |-> IF i <= Min(Len(s), n) THEN s[i] ELSE 0]

\* strncmp(a, b, n) == 0: compares at most n chars, stops at a common NUL.
RECURSIVE StrnEq(_, _, _, _)
StrnEq(a, b, i, n) ==
    IF i > n THEN TRUE
    ELSE IF i > Len(a) \/ i > Len(b) THEN FALSE
    ELSE IF a[i] # b[i] THEN FALSE
    ELSE IF a[i] = 0 THEN TRUE
    ELSE StrnEq(a, b, i + 1, n)

DetectResult(s) == StrnEq(magic, ReadIntoBuf(s, SizeofMagic), 1, SizeofMagic)

Prefixes(s) == {SubSeq(s, 1, n) : n \in 0..Len(s)}
DetectStreams ==
    Prefixes(PngSignature \o <<0, 0>>)
    \cup Prefixes(<<137, 80, 78, 71, 0, 0, 0, 0, 0>>)
    \cup Prefixes(<<137, 80, 78, 71, 13, 10, 26, 11>>)
    \cup {<<71, 73, 70, 56, 57, 97, 1, 0>>, <<255, 216, 255, 224, 0, 16, 74, 70, 73>>,
          <<137, 80, 78, 71, 13, 10, 26, 10, 0, 0, 0, 13, 73, 72, 68, 82>>}

Idle == pc = "idle"

\* Lines 40-47.
Detect ==
    /\ Idle
    /\ \E s \in DetectStreams :
        /\ stream' = [kind |-> "bytes", bytes |-> s]
        /\ outcome' = [kind |-> "returned", value |-> DetectResult(s)]
    /\ op' = "detect"
    /\ pc' = "done"
    /\ fault' = "none"
    /\ png_ptr' = NoHandle /\ writep' = NoHandle /\ infop' = NoHandle
    /\ offsets' = <<0, 0>> /\ hdr' = NoHdr /\ transformations' = {}
    /\ format' = "none" /\ retval' = NoImage
    /\ image' = NoImage /\ out' = NoStream
    /\ UNCHANGED build

\* ------------------------------------------------- PNG datastreams (input)
Channels(ct) ==
    CASE ct = PNG_COLOR_TYPE_GRAY -> 1
      [] ct = PNG_COLOR_TYPE_RGB -> 3
      [] ct = PNG_COLOR_TYPE_PALETTE -> 1
      [] ct = PNG_COLOR_TYPE_GRAY_ALPHA -> 2
      [] OTHER -> 4

ColorTypes == {PNG_COLOR_TYPE_GRAY, PNG_COLOR_TYPE_RGB, PNG_COLOR_TYPE_PALETTE,
               PNG_COLOR_TYPE_GRAY_ALPHA, PNG_COLOR_TYPE_RGB_ALPHA}

\* Bit depths the PNG format allows for each colour type.
LegalDepths(ct) ==
    CASE ct = PNG_COLOR_TYPE_GRAY -> {1, 2, 4, 8, 16}
      [] ct = PNG_COLOR_TYPE_PALETTE -> {1, 2, 4, 8}
      [] OTHER -> {8, 16}

Pow2(n) == CASE n = 1 -> 2 [] n = 2 -> 4 [] n = 4 -> 16 [] n = 8 -> 256 [] OTHER -> 65536

Pix(seed, r, k) == (seed * 37 + r * 11 + k * 5 + 3) % 256

\* One sample of the datastream at its own bit depth.
Sample(seed, r, k, ct, bd, palNum) ==
    IF ct = PNG_COLOR_TYPE_PALETTE THEN Pix(seed, r, k) % Min(palNum, Pow2(bd))
    ELSE IF bd = 16 THEN Pix(seed, r, k) * 256 + 17
    ELSE Pix(seed, r, k) % Pow2(bd)

SourceRows(seed, w, h, ct, bd, palNum) ==
    [r \in 1..h |-> [k \in 1..(w * Channels(ct)) |-> Sample(seed, r, k, ct, bd, palNum)]]

ColorTable(n) == [i \in 1..n |-> [red |-> 10 * i, green |-> 20 * i, blue |-> 30 * i]]
TransTable(n) == [i \in 1..n |-> 40 * i]

\* Unknown chunks: a name and a payload.
Grab5m3 == [name |-> "grAb", data |-> <<0, 0, 0, 5, 255, 255, 255, 253>>]
GrabLong == [name |-> "grAb", data |-> <<0, 0, 1, 0, 128, 0, 0, 0, 9>>]
GrabShort == [name |-> "grAb", data |-> <<0, 0, 0, 5>>]
OtherChunk == [name |-> "abCd", data |-> <<0, 0, 0, 1, 0, 0, 0, 2>>]

\* <<chunks before the pixel data, chunks after the pixel data>>
ChunkLayouts ==
    { <<<<>>, <<>>>>,
      <<<<Grab5m3>>, <<>>>>,
      <<<<>>, <<Grab5m3>>>>,
      <<<<OtherChunk, GrabLong>>, <<>>>>,
      <<<<GrabShort>>, <<OtherChunk>>>>,
      <<<<OtherChunk>>, <<GrabLong>>>> }

\* What an uninitialised int offsets[2] may hold.
StackGarbage == {<<0, 0>>, <<7, -9>>}

Faults == {"none", "info", "image", "end"}

\* ------------------------------------------------------------- byte order
\* A 32-bit int is kept as its four bytes, most significant first.

\* *(int *)(bytes + i - 1) as this host reads it.
HostWord(b, i) ==
    IF littleEndian
    THEN <<b[i + 3], b[i + 2], b[i + 1], b[i]>>
    ELSE <<b[i], b[i + 1], b[i + 2], b[i + 3]>>

ByteSwap32(w) == <<w[4], w[3], w[2], w[1]>>

\* kex::cpu::swap_be: big-endian to host order.
swap_be(w) == IF littleEndian THEN ByteSwap32(w) ELSE w

\* The value of the int, two's complement.
ToInt32(w) ==
    (IF w[1] >= 128 THEN w[1] - 256 ELSE w[1]) * 16777216
    + w[2] * 65536 + w[3] * 256 + w[4]

\* The user-chunk callback: the new offsets and the value returned to libpng.
chunkFn(offs, chunk) ==
    IF chunk.name = "grAb" /\ Len(chunk.data) >= 8
    THEN [offsets |-> <<ToInt32(swap_be(HostWord(chunk.data, 1))),
                        ToInt32(swap_be(HostWord(chunk.data, 5)))>>,
          handled |-> 1]
    ELSE [offsets |-> offs, handled |-> 0]

\* libpng hands every unknown chunk it meets to the callback, in order.
RECURSIVE ReadUnknownChunks(_, _)
ReadUnknownChunks(offs, chunks) ==
    IF chunks = <<>> THEN offs
    ELSE ReadUnknownChunks(chunkFn(offs, Head(chunks)).offsets, Tail(chunks))

\* ----------------------------------------------- libpng read transformations
HasMask(ct, m) == (ct \div m) % 2 = 1
OrMask(ct, m) == IF HasMask(ct, m) THEN ct ELSE ct + m

\* png_set_strip_16, png_set_packing, png_set_interlace_handling, then
\* png_set_expand for gray and png_set_gray_to_rgb for gray+alpha.
RequestedTransformations_nopack(ct) ==
    {"STRIP_16", "INTERLACE"}
    \cup (IF ct = PNG_COLOR_TYPE_GRAY THEN {"EXPAND", "EXPAND_tRNS"} ELSE {})
    \cup (IF ct = PNG_COLOR_TYPE_GRAY_ALPHA THEN {"GRAY_TO_RGB", "EXPAND"} ELSE {})

RequestedTransformations(ct) ==
    {"STRIP_16", "PACK", "INTERLACE"}
    \cup (IF ct = PNG_COLOR_TYPE_GRAY THEN {"EXPAND", "EXPAND_tRNS"} ELSE {})
    \cup (IF ct = PNG_COLOR_TYPE_GRAY_ALPHA THEN {"GRAY_TO_RGB", "EXPAND"} ELSE {})

\* png_read_update_info: the header as libpng reports it after the
\* transformations (expand, strip 16, gray to rgb, pack, in libpng's order).
ExpandInfo(h, t, numTrans) ==
    IF "EXPAND" \notin t THEN h
    ELSE IF h.colorType = PNG_COLOR_TYPE_PALETTE
    THEN [h EXCEPT !.colorType = IF numTrans > 0 THEN PNG_COLOR_TYPE_RGB_ALPHA
                                 ELSE PNG_COLOR_TYPE_RGB,
                   !.bitDepth = 8]
    ELSE [h EXCEPT !.colorType = IF numTrans > 0 /\ "EXPAND_tRNS" \in t
                                 THEN OrMask(@, PNG_COLOR_MASK_ALPHA) ELSE @,
                   !.bitDepth = IF @ < 8 THEN 8 ELSE @]

Strip16Info(h, t) ==
    IF "STRIP_16" \in t /\ h.bitDepth = 16 THEN [h EXCEPT !.bitDepth = 8] ELSE h

GrayToRgbInfo(h, t) ==
    IF "GRAY_TO_RGB" \in t THEN [h EXCEPT !.colorType = OrMask(@, PNG_COLOR_MASK_COLOR)] ELSE h

PackInfo(h, t) ==
    IF "PACK" \in t /\ h.bitDepth < 8 THEN [h EXCEPT !.bitDepth = 8] ELSE h

ReadUpdateInfo(h, t, numTrans) ==
    PackInfo(GrayToRgbInfo(Strip16Info(ExpandInfo(h, t, numTrans), t), t), t)

\* One decoded row: samples chopped to 8 bits, one per byte, gray
\* replicated into red, green, blue when gray-to-rgb is on.
DecodeSample(v, bd, t) == IF bd = 16 /\ "STRIP_16" \in t THEN v \div 256 ELSE v

DecodeRow(row, ct, bd, t) ==
    IF "GRAY_TO_RGB" \in t /\ ~HasMask(ct, PNG_COLOR_MASK_COLOR)
    THEN LET inCh == Channels(ct)
             outCh == inCh + 2
             n == Len(row) \div inCh
         IN [k \in 1..(n * outCh) |->
               LET p == (k - 1) \div outCh
                   c == (k - 1) % outCh
               IN DecodeSample(row[p * inCh + (IF c < 3 THEN 1 ELSE 2)], bd, t)]
    ELSE [k \in 1..Len(row) |-> DecodeSample(row[k], bd, t)]

\* ------------------------------------------------------------------ Image
BytesPerPixel(f) ==
    CASE f \in {"rgb", "bgr"} -> 3
      [] f \in {"rgba", "bgra"} -> 4
      [] OTHER -> 1

\* Image(width, height, format): a zeroed buffer, no offsets.
NewImage(w, h, f) ==
    [width |-> w, height |-> h, format |-> f,
     rows |-> [r \in 1..h |-> [k \in 1..(w * BytesPerPixel(f)) |-> 0]],
     palette |-> [format |-> "none", entries |-> <<>>],
     offsets |-> <<0, 0>>]

\* The images handed to save.
SaveImage(w, h, f, seed) ==
    [NewImage(w, h, f) EXCEPT
        !.rows = [r \in 1..h |-> [k \in 1..(w * BytesPerPixel(f)) |-> Pix(seed, r, k)]],
        !.palette = IF f = "index8" THEN [format |-> "rgb", entries |-> ColorTable(MaxPal)]
                    ELSE @]

PixelFormats == {"rgb", "bgr", "rgba", "bgra", "index8"}

\* ------------------------------------------------------------------- load
\* The switch on the colour type re-read after png_read_update_info.
LoadFormat_noalpha(h) ==
    CASE h.colorType = PNG_COLOR_TYPE_RGB -> [ok |-> TRUE, format |-> "rgb"]
      [] h.colorType = PNG_COLOR_TYPE_RGB_ALPHA -> [ok |-> TRUE, format |-> "rgb"]
      [] h.colorType = PNG_COLOR_TYPE_PALETTE ->
            IF h.bitDepth = 8 THEN [ok |-> TRUE, format |-> "index8"]
            ELSE [ok |-> FALSE, msg |-> "Invalid PNG bit depth", arg |-> h.bitDepth]
      [] OTHER -> [ok |-> FALSE, msg |-> "Unknown PNG image color type", arg |-> h.colorType]

LoadFormat(h) ==
    CASE h.colorType = PNG_COLOR_TYPE_RGB -> [ok |-> TRUE, format |-> "rgb"]
      [] h.colorType = PNG_COLOR_TYPE_RGB_ALPHA -> [ok |-> TRUE, format |-> "rgba"]
      [] h.colorType = PNG_COLOR_TYPE_PALETTE ->
            IF h.bitDepth = 8 THEN [ok |-> TRUE, format |-> "index8"]
            ELSE [ok |-> FALSE, msg |-> "Invalid PNG bit depth", arg |-> h.bitDepth]
      [] OTHER -> [ok |-> FALSE, msg |-> "Unknown PNG image color type", arg |-> h.colorType]

\* The palette built when png_get_valid(PNG_INFO_tRNS) holds.
TrnsPalette_off(colors, alpha) ==
    [format |-> "rgba",
     entries |-> [i \in 1..Len(colors) |->
                    [red |-> colors[i].red, green |-> colors[i].green,
                     blue |-> colors[i].blue,
                     alpha |-> IF i < Len(alpha) THEN alpha[i] ELSE 255]]]

TrnsPalette(colors, alpha) ==
    [format |-> "rgba",
     entries |-> [i \in 1..Len(colors) |->
                    [red |-> colors[i].red, green |-> colors[i].green,
                     blue |-> colors[i].blue,
                     alpha |-> IF i <= Len(alpha) THEN alpha[i] ELSE 255]]]

\* The palette filled in place when there is no tRNS chunk: red, green and
\* blue of each colour-table entry (the entries of the Image's own palette
\* beyond the colour table are not represented).
PlainPalette(colors) ==
    [format |-> "rgb",
     entries |-> [i \in 1..Len(colors) |->
                    [red |-> colors[i].red, green |-> colors[i].green,
                     blue |-> colors[i].blue]]]

LoadPalette(s) ==
    IF Len(s.trns) > 0 THEN TrnsPalette(s.plte, s.trns) ELSE PlainPalette(s.plte)

LoadError(m, a) == [kind |-> "image_load_error", msg |-> m, arg |-> a]
SaveError(m) == [kind |-> "image_save_error", msg |-> m]

\* A datastream supplied by the caller.
GivenStreams ==
    { [kind |-> "png", src |-> "given", complete |-> TRUE,
       width |-> w, height |-> h, bitDepth |-> bd, colorType |-> ct,
       interlace |-> il,
       plte |-> IF ct = PNG_COLOR_TYPE_PALETTE THEN ColorTable(pn) ELSE <<>>,
       trns |-> TransTable(tn),
       before |-> lay[1], after |-> lay[2],
       rows |-> SourceRows(seed, w, h, ct, bd, pn)] :
      w \in 1..MaxDim, h \in 1..MaxDim, seed \in 0..MaxSeed,
      il \in {PNG_INTERLACE_NONE, PNG_INTERLACE_ADAM7},
      lay \in ChunkLayouts,
      <<ct, bd, pn, tn>> \in
        { x \in ColorTypes \X {1, 2, 4, 8, 16} \X (1..MaxPal) \X (0..MaxPal) :
            /\ x[2] \in LegalDepths(x[1])
            /\ IF x[1] = PNG_COLOR_TYPE_PALETTE
               THEN x[3] <= Pow2(x[2]) /\ x[4] <= x[3]
               ELSE x[3] = 1 /\ x[4] <= (IF HasMask(x[1], PNG_COLOR_MASK_ALPHA) THEN 0 ELSE 1) } }

\* Lines 51-60: a struct cannot be created.
LoadCreateFail ==
    /\ Idle
    /\ \E s \in GivenStreams, which \in {"png_ptr", "infop"} :
        /\ stream' = s
        /\ png_ptr' = IF which = "infop" THEN Destroy(Acquire(NoHandle)) ELSE NoHandle
        /\ outcome' = LoadError(IF which = "infop" THEN "Failed to create PNG info struct"
                                ELSE "Failed to create PNG read struct", 0)
    /\ op' = "load" /\ pc' = "done" /\ fault' = "none"
    /\ writep' = NoHandle /\ infop' = NoHandle
    /\ offsets' = <<0, 0>> /\ hdr' = NoHdr /\ transformations' = {}
    /\ format' = "none" /\ retval' = NoImage
    /\ image' = NoImage /\ out' = NoStream
    /\ UNCHANGED build

\* Lines 51-88: both structs created, the trap armed, the callbacks set.
LoadBegin(s, f) ==
    /\ stream' = s
    /\ fault' = f
    /\ png_ptr' = Acquire(NoHandle)
    /\ infop' = Acquire(NoHandle)
    /\ writep' = NoHandle
    /\ \E g \in StackGarbage : offsets' = g
    /\ hdr' = NoHdr /\ transformations' = {} /\ format' = "none"
    /\ retval' = NoImage /\ outcome' = NoOutcome
    /\ op' = "load" /\ pc' = "load_read_info"
    /\ UNCHANGED build

LoadCreate ==
    /\ Idle
    /\ \E s \in GivenStreams, f \in Faults : LoadBegin(s, f)
    /\ image' = NoImage /\ out' = NoStream

\* load called on the bytes the last save wrote.
LoadCreateSaved ==
    /\ pc = "done" /\ op = "save" /\ outcome.kind = "returned"
    /\ \E f \in Faults : LoadBegin([out EXCEPT !.src = "saved"], f)
    /\ UNCHANGED <<image, out>>

\* Lines 92-103: png_read_info reads the chunks before the pixel data and
\* calls chunkFn on the unknown ones; the header is read back and the
\* transformations are requested.
LoadReadInfo ==
    /\ pc = "load_read_info" /\ fault # "info"
    /\ offsets' = ReadUnknownChunks(offsets, stream.before)
    /\ hdr' = [width |-> stream.width, height |-> stream.height,
               bitDepth |-> stream.bitDepth, colorType |-> stream.colorType,
               interlaceMethod |-> stream.interlace]
    /\ transformations' = RequestedTransformations(stream.colorType)
    /\ pc' = "load_update_info"
    /\ UNCHANGED <<build, op, stream, fault, handles, format, retval, image, out, outcome>>

\* Lines 105-131: the header after the transformations, mapped to a
\* pixel_format; the two throws leave without touching the structs.
LoadUpdateInfo ==
    /\ pc = "load_update_info"
    /\ LET h == ReadUpdateInfo(hdr, transformations, Len(stream.trns))
           m == LoadFormat(h)
       IN /\ hdr' = h
          /\ IF m.ok
             THEN /\ format' = m.format
                  /\ pc' = "load_build_image"
                  /\ UNCHANGED outcome
             ELSE /\ outcome' = LoadError(m.msg, m.arg)
                  /\ pc' = "done"
                  /\ UNCHANGED format
    /\ UNCHANGED <<build, op, stream, fault, handles, offsets, transformations,
                   retval, image, out>>

\* Lines 133-177: the Image, its palette, and the offsets copied onto it.
LoadBuildImage ==
    /\ pc = "load_build_image"
    /\ retval' = [NewImage(hdr.width, hdr.height, format) EXCEPT
                    !.palette = IF hdr.colorType = PNG_COLOR_TYPE_PALETTE
                                THEN LoadPalette(stream) ELSE @,
                    !.offsets = offsets]
    /\ pc' = "load_read_image"
    /\ UNCHANGED <<build, op, stream, fault, handles, offsets, hdr, transformations,
                   format, image, out, outcome>>

\* Line 179: the rows are decoded straight into the Image's buffer.
LoadReadImage ==
    /\ pc = "load_read_image" /\ fault # "image"
    /\ retval' = [retval EXCEPT
                    !.rows = [r \in 1..hdr.height |->
                                DecodeRow(stream.rows[r], stream.colorType,
                                          stream.bitDepth, transformations)]]
    /\ pc' = "load_read_end"
    /\ UNCHANGED <<build, op, stream, fault, handles, offsets, hdr, transformations,
                   format, image, out, outcome>>

\* Lines 180-182: png_read_end reads the chunks after the pixel data (chunkFn
\* writes the local offsets array), then retval is returned.
LoadReadEnd ==
    /\ pc = "load_read_end" /\ fault # "end"
    /\ offsets' = ReadUnknownChunks(offsets, stream.after)
    /\ outcome' = [kind |-> "returned", image |-> retval]
    /\ pc' = "done"
    /\ UNCHANGED <<build, op, stream, fault, handles, hdr, transformations,
                   format, retval, image, out>>

\* Lines 62-66: libpng longjmps out of png_read_info, png_read_image or
\* png_read_end; both structs are destroyed and a load error is thrown.
LoadTrap ==
    /\ \/ pc = "load_read_info" /\ fault = "info"
       \/ pc = "load_read_image" /\ fault = "image"
       \/ pc = "load_read_end" /\ fault = "end"
    /\ png_ptr' = Destroy(png_ptr)
    /\ infop' = Destroy(infop)
    /\ outcome' = LoadError("An error occurred in libpng", 0)
    /\ pc' = "done"
    /\ UNCHANGED <<build, op, stream, fault, writep, offsets, hdr, transformations,
                   format, retval, image, out>>

\* ------------------------------------------------------------------- save
\* The switch on image.format(): the PNG colour type, or the throw.
SaveColorType_index(f) ==
    CASE f \in {"rgb", "bgr", "index8"} -> [ok |-> TRUE, format |-> PNG_COLOR_TYPE_RGB]
      [] f \in {"rgba", "bgra"} -> [ok |-> TRUE, format |-> PNG_COLOR_TYPE_RGB_ALPHA]
      [] OTHER -> [ok |-> FALSE, msg |-> "Saving image with incompatible pixel format"]

SaveColorType(f) ==
    CASE f \in {"rgb", "bgr"} -> [ok |-> TRUE, format |-> PNG_COLOR_TYPE_RGB]
      [] f \in {"rgba", "bgra"} -> [ok |-> TRUE, format |-> PNG_COLOR_TYPE_RGB_ALPHA]
      [] OTHER -> [ok |-> FALSE, msg |-> "Saving image with incompatible pixel format"]

SaveImages ==
    {SaveImage(w, h, f, seed) : w \in 0..MaxDim, h \in 0..MaxDim,
                                f \in PixelFormats, seed \in 0..MaxSeed}

\* Lines 187-196: a struct cannot be created.
SaveCreateFail ==
    /\ Idle
    /\ \E im \in SaveImages, which \in {"writep", "infop"} :
        /\ image' = im
        /\ writep' = IF which = "infop" THEN Destroy(Acquire(NoHandle)) ELSE NoHandle
        /\ outcome' = SaveError(IF which = "infop" THEN "Failed getting png_infop"
                                ELSE "Failed getting png_structp")
    /\ op' = "save" /\ pc' = "done" /\ fault' = "none"
    /\ png_ptr' = NoHandle /\ infop' = NoHandle
    /\ offsets' = <<0, 0>> /\ hdr' = NoHdr /\ transformations' = {}
    /\ format' = "none" /\ retval' = NoImage
    /\ stream' = NoStream /\ out' = NoStream
    /\ UNCHANGED build

\* Lines 187-210: both structs created, the trap armed, the callbacks set.
SaveCreate ==
    /\ Idle
    /\ \E im \in SaveImages, f \in Faults :
        /\ image' = im
        /\ fault' = f
    /\ writep' = Acquire(NoHandle)
    /\ infop' = Acquire(NoHandle)
    /\ png_ptr' = NoHandle
    /\ offsets' = <<0, 0>> /\ hdr' = NoHdr /\ transformations' = {}
    /\ format' = "none" /\ retval' = NoImage /\ outcome' = NoOutcome
    /\ stream' = NoStream /\ out' = NoStream
    /\ op' = "save" /\ pc' = "save_map_format"
    /\ UNCHANGED build

\* Lines 212-231: the colour type; the throw leaves without touching the structs.
SaveMapFormat ==
    /\ pc = "save_map_format"
    /\ LET m == SaveColorType(image.format)
       IN IF m.ok
          THEN /\ format' = m.format
               /\ pc' = "save_write_info"
               /\ UNCHANGED outcome
          ELSE /\ outcome' = SaveError(m.msg)
               /\ pc' = "done"
               /\ UNCHANGED format
    /\ UNCHANGED <<build, op, stream, fault, handles, offsets, hdr, transformations,
                   retval, image, out>>

\* png_set_IHDR rejects a header with a zero width or height.
HeaderRejected(im) == im.width = 0 \/ im.height = 0

\* Lines 233-235: the header is set and written.
SaveWriteInfo ==
    /\ pc = "save_write_info" /\ fault # "info" /\ ~HeaderRejected(image)
    /\ out' = [kind |-> "png", src |-> "saved", complete |-> FALSE,
               width |-> image.width, height |-> image.height, bitDepth |-> 8,
               colorType |-> format, interlace |-> PNG_INTERLACE_NONE,
               plte |-> <<>>, trns |-> <<>>, before |-> <<>>, after |-> <<>>,
               rows |-> <<>>]
    /\ pc' = "save_write_image"
    /\ UNCHANGED <<build, op, stream, fault, handles, offsets, hdr, transformations,
                   format, retval, image, outcome>>

\* Lines 237-241: every scanline of the image is written, in order.
SaveWriteImage ==
    /\ pc = "save_write_image" /\ fault # "image"
    /\ out' = [out EXCEPT !.rows = [i \in 1..image.height |-> image.rows[i]]]
    /\ pc' = "save_write_end"
    /\ UNCHANGED <<build, op, stream, fault, handles, offsets, hdr, transformations,
                   format, retval, image, outcome>>

\* Lines 242-244: the end marker is written, both structs are destroyed.
SaveWriteEnd ==
    /\ pc = "save_write_end" /\ fault # "end"
    /\ out' = [out EXCEPT !.complete = TRUE]
    /\ writep' = Destroy(writep)
    /\ infop' = Destroy(infop)
    /\ outcome' = [kind |-> "returned"]
    /\ pc' = "done"
    /\ UNCHANGED <<build, op, stream, fault, png_ptr, offsets, hdr, transformations,
                   format, retval, image>>

\* Lines 198-202: libpng longjmps out of png_set_IHDR, png_write_info,
\* png_write_image or png_write_end; both structs are destroyed and a save
\* error is thrown.
SaveTrap ==
    /\ \/ pc = "save_write_info" /\ (fault = "info" \/ HeaderRejected(image))
       \/ pc = "save_write_image" /\ fault = "image"
       \/ pc = "save_write_end" /\ fault = "end"
    /\ writep' = Destroy(writep)
    /\ infop' = Destroy(infop)
    /\ outcome' = SaveError("Error occurred in libpng")
    /\ pc' = "done"
    /\ UNCHANGED <<build, op, stream, fault, png_ptr, offsets, hdr, transformations,
                   format, retval, image, out>>

\* ---------------------------------------------------------- specification
Init ==
    /\ ptrSize \in {4, 8}
    /\ littleEndian \in BOOLEAN
    /\ pc = "idle" /\ op = "none"
    /\ stream = NoStream /\ fault = "none"
    /\ png_ptr = NoHandle /\ writep = NoHandle /\ infop = NoHandle
    /\ offsets = <<0, 0>> /\ hdr = NoHdr /\ transformations = {}
    /\ format = "none" /\ retval = NoImage
    /\ image = NoImage /\ out = NoStream
    /\ outcome = NoOutcome

Next ==
    \/ Detect
    \/ LoadCreateFail
    \/ LoadCreate
    \/ LoadCreateSaved
    \/ LoadReadInfo
    \/ LoadUpdateInfo
    \/ LoadBuildImage
    \/ LoadReadImage
    \/ LoadReadEnd
    \/ LoadTrap
    \/ SaveCreateFail
    \/ SaveCreate
    \/ SaveMapFormat
    \/ SaveWriteInfo
    \/ SaveWriteImage
    \/ SaveWriteEnd
    \/ SaveTrap

Spec == Init /\ [][Next]_vars


\* ------------------------------------------------------------- properties
LoadDone == pc = "done" /\ op = "load"
SaveDone == pc = "done" /\ op = "save"
Returned == outcome.kind = "returned"
ReleasedOnce(h) == IF h.acquired THEN h.released = 1 ELSE h.released = 0

\* C1: when load has left, by return or by any throw, the read struct and
\* the info struct it acquired have each been released exactly once.
LoadReleasesExactlyOnce ==
    LoadDone => ReleasedOnce(png_ptr) /\ ReleasedOnce(infop)

AllChunks(s) == s.before \o s.after
HasGrab(s) == \E i \in 1..Len(AllChunks(s)) : AllChunks(s)[i].name = "grAb"
WellFormedGrabs(s) ==
    {i \in 1..Len(AllChunks(s)) :
        AllChunks(s)[i].name = "grAb" /\ Len(AllChunks(s)[i].data) >= 8}
\* Two big-endian signed 32-bit integers.
GrabXY(c) == <<ToInt32(<<c.data[1], c.data[2], c.data[3], c.data[4]>>),
               ToInt32(<<c.data[5], c.data[6], c.data[7], c.data[8]>>)>>

\* C2: a successful load of a datastream without a grAb chunk returns an
\* Image whose offsets are (0, 0).
NoGrabGivesZeroOffsets ==
    (LoadDone /\ Returned /\ ~HasGrab(stream)) => outcome.image.offsets = <<0, 0>>

\* C3: a successful load of a datastream with a well-formed grAb chunk
\* returns an Image whose offsets are the chunk's (X, Y), wherever the chunk
\* stands.
GrabGivesOffsetsAnywhere ==
    (LoadDone /\ Returned) =>
        \A i \in WellFormedGrabs(stream) :
            outcome.image.offsets = GrabXY(AllChunks(stream)[i])

StructsCreated == png_ptr.acquired /\ infop.acquired
StructsCreatedForSave == writep.acquired /\ infop.acquired

\* C4: a grayscale datastream loads as rgb and a grayscale+alpha one as
\* rgba; neither raises a load error.
GrayLoadsAsRgb ==
    (LoadDone /\ StructsCreated /\ fault = "none"
        /\ stream.colorType \in {PNG_COLOR_TYPE_GRAY, PNG_COLOR_TYPE_GRAY_ALPHA}) =>
        /\ Returned
        /\ outcome.image.format =
              (IF stream.colorType = PNG_COLOR_TYPE_GRAY THEN "rgb" ELSE "rgba")

\* C5: when save has left, by return or by any throw, the write struct and
\* the info struct it acquired have each been released exactly once.
SaveReleasesExactlyOnce ==
    SaveDone => ReleasedOnce(writep) /\ ReleasedOnce(infop)

\* C6 as stated: a paletted datastream whose bit depth is not 8 ends in the
\* invalid-bit-depth load error.
PalettedNot8Rejected ==
    (LoadDone /\ StructsCreated /\ fault = "none"
        /\ stream.colorType = PNG_COLOR_TYPE_PALETTE /\ stream.bitDepth # 8) =>
        outcome.kind = "image_load_error" /\ outcome.msg = "Invalid PNG bit depth"

\* C6 amended: a paletted datastream of any bit depth (1, 2, 4, 8) in which
\* libpng signals no error is returned as an index8 Image, the bit depth read
\* back after the transformations being 8; no load ends in the
\* invalid-bit-depth error.
PalettedLoadsAsIndex8 ==
    /\ (LoadDone /\ StructsCreated /\ fault = "none"
          /\ stream.colorType = PNG_COLOR_TYPE_PALETTE) =>
          Returned /\ outcome.image.format = "index8" /\ hdr.bitDepth = 8
    /\ (LoadDone /\ outcome.kind = "image_load_error") =>
          outcome.msg # "Invalid PNG bit depth"

PalettedNot8Loaded ==
    /\ LoadDone /\ Returned
    /\ stream.colorType = PNG_COLOR_TYPE_PALETTE /\ stream.bitDepth = 4
    /\ outcome.image.format = "index8"

StartsWithSignature(b) == Len(b) >= 8 /\ SubSeq(b, 1, 8) = PngSignature

\* C7: detect returns true exactly when the stream's first 8 bytes are the
\* PNG signature, and false for every shorter stream.
DetectIffSignature ==
    (pc = "done" /\ op = "detect") =>
        (outcome.value <=> StartsWithSignature(stream.bytes))

RgbFormats == {"rgb", "bgr"}
RgbaFormats == {"rgba", "bgra"}

\* C8: save throws a save error for every format other than rgb, bgr, rgba,
\* bgra; for those four, with width and height at least 1 and no error from
\* libpng, it returns having written colour type RGB (rgb, bgr) or RGB+alpha
\* (rgba, bgra), bit depth 8, not interlaced.
SaveFormatContract ==
    SaveDone =>
        /\ image.format \notin (RgbFormats \cup RgbaFormats) =>
              outcome.kind = "image_save_error"
        /\ (image.format \in (RgbFormats \cup RgbaFormats) /\ StructsCreatedForSave
              /\ image.width >= 1 /\ image.height >= 1 /\ fault = "none") =>
              /\ Returned
              /\ out.complete
              /\ out.colorType = (IF image.format \in RgbFormats
                                  THEN PNG_COLOR_TYPE_RGB ELSE PNG_COLOR_TYPE_RGB_ALPHA)
              /\ out.bitDepth = 8
              /\ out.interlace = PNG_INTERLACE_NONE

SavedBgra ==
    /\ SaveDone /\ Returned /\ image.format = "bgra"
    /\ image.width = MaxDim /\ out.colorType = PNG_COLOR_TYPE_RGB_ALPHA

\* C9: an rgb or rgba image of width and height at least 1, saved and then
\* loaded from the bytes written, comes back with the same width, height,
\* format and rows.
RoundTrip ==
    (LoadDone /\ stream.src = "saved" /\ fault = "none"
        /\ image.format \in {"rgb", "rgba"}) =>
        /\ Returned
        /\ outcome.image.width = image.width
        /\ outcome.image.height = image.height
        /\ outcome.image.format = image.format
        /\ outcome.image.rows = image.rows

RoundTripRgba ==
    /\ LoadDone /\ stream.src = "saved" /\ Returned
    /\ image.format = "rgba" /\ image.width = MaxDim /\ image.height = MaxDim
    /\ outcome.image.rows = image.rows

\* C10: an 8-bit paletted datastream with a transparency chunk loads with an
\* RGBA palette of as many entries as the colour table; entry i has the
\* colour table's red, green, blue and the transparency table's alpha where
\* that table reaches, 255 beyond it.
TrnsPaletteInstalled ==
    (LoadDone /\ Returned /\ stream.colorType = PNG_COLOR_TYPE_PALETTE
        /\ stream.bitDepth = 8 /\ Len(stream.trns) > 0) =>
        LET pal == outcome.image.palette
        IN /\ pal.format = "rgba"
           /\ Len(pal.entries) = Len(stream.plte)
           /\ \A i \in 1..Len(stream.plte) :
                /\ pal.entries[i].red = stream.plte[i].red
                /\ pal.entries[i].green = stream.plte[i].green
                /\ pal.entries[i].blue = stream.plte[i].blue
                /\ pal.entries[i].alpha =
                      (IF i <= Len(stream.trns) THEN stream.trns[i] ELSE 255)

TrnsShorterThanPalette ==
    /\ LoadDone /\ Returned /\ stream.colorType = PNG_COLOR_TYPE_PALETTE
    /\ stream.bitDepth = 8
    /\ Len(stream.trns) > 0 /\ Len(stream.trns) < Len(stream.plte)
    /\ outcome.image.palette.entries[Len(stream.plte)].alpha = 255
    /\ outcome.image.palette.entries[1].alpha = stream.trns[1]
====
